---- MODULE Spec2Model ----
(***************************************************************************)
(* The to-do list of src/src/App.jsx: the App component's state (todos),   *)
(* its three handlers (addTodo, toggleTodo, deleteTodo), the lazy useState *)
(* initializer that reads localStorage['todos'] and the useEffect that     *)
(* writes it back, under React's scheduling: a handler queues a state      *)
(* update, a render commits it, the passive effect then runs.              *)
(*                                                                         *)
(* JavaScript values are modelled structurally.  A string is a sequence of *)
(* characters.  A JSON text is a sequence of tokens.  JSON.stringify and   *)
(* JSON.parse are a printer and a recursive-descent parser over tokens.    *)
(* The values covered are scalars, flat objects (scalar properties) and    *)
(* arrays of scalars and flat objects.                                     *)
(***************************************************************************)
EXTENDS Integers, Sequences, FiniteSets, TLC

\* ------------------------------------------------------------- bounds
\* Intents dispatched in one behaviour.
MaxIntents == 3
\* Date.now() advances at most this much in one behaviour.
MaxTicks == 1

\* ------------------------------------------------------ JavaScript values
\* A token of a JSON text; also the representation of a scalar value.
Tok(k, n, s, b) == [k |-> k, n |-> n, s |-> s, b |-> b]
Pun(c) == Tok(c, 0, <<>>, FALSE)
TNum(n) == Tok("num", n, <<>>, FALSE)
TStr(s) == Tok("str", 0, s, FALSE)
TBool(b) == Tok("bool", 0, <<>>, b)
TNull == Tok("null", 0, <<>>, FALSE)
\* The value undefined (never part of a JSON text).
Undefined == Tok("undefined", 0, <<>>, FALSE)
IsScalarTok(t) == t.k \in {"num", "str", "bool", "null"}

\* Property names of an item.
KId == <<"id">>
KText == <<"text">>
KCompleted == <<"completed">>

\* An object: its properties in insertion order.
Prop(key, val) == [key |-> key, val |-> val]
HasKey(o, key) == \E i \in 1..Len(o) : o[i].key = key
\* o.key
Get(o, key) ==
  IF HasKey(o, key)
  THEN o[CHOOSE i \in 1..Len(o) : o[i].key = key].val
  ELSE Undefined
\* { ...o, key: val }: an existing key keeps its place, a new one is appended.
Put(o, key, val) ==
  IF HasKey(o, key)
  THEN [i \in 1..Len(o) |-> IF o[i].key = key THEN Prop(key, val) ELSE o[i]]
  ELSE Append(o, Prop(key, val))

\* An element of an array: an object or a scalar.
EObj(o) == [kind |-> "object", obj |-> o, sc |-> TNull]
EScalar(t) == [kind |-> "scalar", obj |-> <<>>, sc |-> t]
\* A value: an array, an object or a scalar.
VArr(a) == [tag |-> "array", arr |-> a, obj |-> <<>>, sc |-> TNull]
VObj(o) == [tag |-> "object", arr |-> <<>>, obj |-> o, sc |-> TNull]
VScalar(t) == [tag |-> "scalar", arr |-> <<>>, obj |-> <<>>, sc |-> t]
EmptyArr == VArr(<<>>)

\* { id, text, completed } as addTodo builds it.
Item(id, text, completed) ==
  EObj(<<Prop(KId, TNum(id)), Prop(KText, TStr(text)),
         Prop(KCompleted, TBool(completed))>>)
\* todo.id, todo.text, todo.completed of an element (of an object element).
IdOf(e) == Get(e.obj, KId)
TextOf(e) == Get(e.obj, KText)
CompletedOf(e) == Get(e.obj, KCompleted)

\* The expected shape: an object with exactly an integer id, a string text
\* and a boolean completed.
IsItem(e) ==
  /\ e.kind = "object"
  /\ Len(e.obj) = 3
  /\ IdOf(e).k = "num"
  /\ TextOf(e).k = "str"
  /\ CompletedOf(e).k = "bool"
IsCollection(v) ==
  /\ v.tag = "array"
  /\ \A i \in 1..Len(v.arr) : IsItem(v.arr[i])

\* ------------------------------------------------------- JSON.stringify
RECURSIVE StrProps(_, _)
StrProps(o, i) ==
  IF i > Len(o) THEN <<>>
  ELSE (IF i > 1 THEN <<Pun(",")>> ELSE <<>>)
       \o <<TStr(o[i].key), Pun(":"), o[i].val>> \o StrProps(o, i + 1)
StrObject(o) == <<Pun("{")>> \o StrProps(o, 1) \o <<Pun("}")>>
StrElem(e) == IF e.kind = "object" THEN StrObject(e.obj) ELSE <<e.sc>>
RECURSIVE StrElems(_, _)
StrElems(a, i) ==
  IF i > Len(a) THEN <<>>
  ELSE (IF i > 1 THEN <<Pun(",")>> ELSE <<>>)
       \o StrElem(a[i]) \o StrElems(a, i + 1)
\* JSON.stringify(v)
Stringify(v) ==
  CASE v.tag = "array" -> <<Pun("[")>> \o StrElems(v.arr, 1) \o <<Pun("]")>>
    [] v.tag = "object" -> StrObject(v.obj)
    [] OTHER -> <<v.sc>>

\* ----------------------------------------------------------- JSON.parse
\* A parse step's result: whether it succeeded, what it read, where it ended.
Fail == [ok |-> FALSE, obj |-> <<>>, arr |-> <<>>, next |-> 0]
At(ts, i) == IF i \in 1..Len(ts) THEN ts[i] ELSE Pun("eof")
\* The members of an object from position i on, after "{" or ",".
RECURSIVE ParseMembers(_, _, _)
ParseMembers(ts, i, acc) ==
  IF /\ At(ts, i).k = "str"
     /\ At(ts, i + 1).k = ":"
     /\ IsScalarTok(At(ts, i + 2))
  THEN LET o == Put(acc, At(ts, i).s, At(ts, i + 2))
       IN CASE At(ts, i + 3).k = "," -> ParseMembers(ts, i + 4, o)
            [] At(ts, i + 3).k = "}" ->
                 [ok |-> TRUE, obj |-> o, arr |-> <<>>, next |-> i + 4]
            [] OTHER -> Fail
  ELSE Fail
\* An object starting at position i (ts[i] is "{").
ParseObject(ts, i) ==
  IF At(ts, i + 1).k = "}"
  THEN [ok |-> TRUE, obj |-> <<>>, arr |-> <<>>, next |-> i + 2]
  ELSE ParseMembers(ts, i + 1, <<>>)
\* The elements of an array from position i on, after "[" or ",".
RECURSIVE ParseElems(_, _, _)
ParseElems(ts, i, acc) ==
  LET r == IF At(ts, i).k = "{" THEN ParseObject(ts, i)
           ELSE IF IsScalarTok(At(ts, i))
           THEN [ok |-> TRUE, obj |-> <<>>, arr |-> <<>>, next |-> i + 1]
           ELSE Fail
      e == IF At(ts, i).k = "{" THEN EObj(r.obj) ELSE EScalar(At(ts, i))
  IN IF ~r.ok THEN Fail
     ELSE CASE At(ts, r.next).k = "," -> ParseElems(ts, r.next + 1, Append(acc, e))
            [] At(ts, r.next).k = "]" ->
                 [ok |-> TRUE, obj |-> <<>>, arr |-> Append(acc, e),
                  next |-> r.next + 1]
            [] OTHER -> Fail
ParseArray(ts, i) ==
  IF At(ts, i + 1).k = "]"
  THEN [ok |-> TRUE, obj |-> <<>>, arr |-> <<>>, next |-> i + 2]
  ELSE ParseElems(ts, i + 1, <<>>)
\* The outcome of an expression: a value, or a thrown error.
Ok(v) == [ok |-> TRUE, val |-> v]
Throw == [ok |-> FALSE, val |-> EmptyArr]
\* JSON.parse(ts): the value, or a SyntaxError.
JSONParse(ts) ==
  CASE At(ts, 1).k = "[" ->
         LET r == ParseArray(ts, 1)
         IN IF r.ok /\ r.next = Len(ts) + 1 THEN Ok(VArr(r.arr)) ELSE Throw
    [] At(ts, 1).k = "{" ->
         LET r == ParseObject(ts, 1)
         IN IF r.ok /\ r.next = Len(ts) + 1 THEN Ok(VObj(r.obj)) ELSE Throw
    [] IsScalarTok(At(ts, 1)) ->
         IF Len(ts) = 1 THEN Ok(VScalar(ts[1])) ELSE Throw
    [] OTHER -> Throw

\* ------------------------------------------------------------- handlers
\* [...v]: the elements of an array, the characters of a string; anything
\* else is not iterable (TypeError).
Spread(v) ==
  CASE v.tag = "array" -> Ok(v)
    [] v.tag = "scalar" /\ v.sc.k = "str" ->
         Ok(VArr([i \in 1..Len(v.sc.s) |-> EScalar(TStr(<<v.sc.s[i]>>))]))
    [] OTHER -> Throw
\* (mutant) the negation is dropped: completed: true
Not_AlwaysTrue(t) == TRUE
\* !x
Not(t) ==
  CASE t.k = "bool" -> ~t.b
    [] t.k = "num" -> t.n = 0
    [] t.k = "str" -> t.s = <<>>
    [] OTHER -> TRUE
\* Reading a property of null throws; of any other scalar gives undefined.
IsNullElem(e) == e.kind = "scalar" /\ e.sc.k = "null"
\* v.map and v.filter exist on arrays only, and the callbacks read todo.id.
CanIterate(v) ==
  /\ v.tag = "array"
  /\ \A i \in 1..Len(v.arr) : ~IsNullElem(v.arr[i])

\* (mutant) the new item is put first: [item, ...todos]
addTodo_Prepends(todos, now, text) ==
  LET sp == Spread(todos)
  IN IF sp.ok THEN Ok(VArr(<<Item(now, text, FALSE)>> \o sp.val.arr))
     ELSE Throw
\* addTodo(text) at time now, with todos as the handler's closure holds it:
\* the argument of setTodos, or a thrown error.
addTodo(todos, now, text) ==
  LET sp == Spread(todos)
  IN IF sp.ok THEN Ok(VArr(Append(sp.val.arr, Item(now, text, FALSE))))
     ELSE Throw

\* (mutant) completed: true instead of !todo.completed
ToggleElem_SetsTrue(e, id) ==
  IF IdOf(e) = id THEN EObj(Put(e.obj, KCompleted, TBool(TRUE))) ELSE e
\* todo.id === id ? { ...todo, completed: !todo.completed } : todo
ToggleElem(e, id) ==
  IF IdOf(e) = id
  THEN EObj(Put(e.obj, KCompleted, TBool(Not(CompletedOf(e)))))
  ELSE e
\* (mutant) the spread is dropped: todo.id === id ? { completed: ... } : todo
toggleTodo_NoSpread(todos, id) ==
  IF CanIterate(todos)
  THEN Ok(VArr([i \in 1..Len(todos.arr) |->
                 IF IdOf(todos.arr[i]) = id
                 THEN EObj(Put(<<>>, KCompleted,
                               TBool(Not(CompletedOf(todos.arr[i])))))
                 ELSE todos.arr[i]]))
  ELSE Throw
\* toggleTodo(id)
toggleTodo(todos, id) ==
  IF CanIterate(todos)
  THEN Ok(VArr([i \in 1..Len(todos.arr) |-> ToggleElem(todos.arr[i], id)]))
  ELSE Throw

\* a.filter(keep)
RECURSIVE Filter(_, _, _)
Filter(a, i, id) ==
  IF i > Len(a) THEN <<>>
  ELSE (IF IdOf(a[i]) # id THEN <<a[i]>> ELSE <<>>) \o Filter(a, i + 1, id)
\* (mutant) the filter keeps the matching items: todo.id === id
deleteTodo_KeepsMatching(todos, id) ==
  IF CanIterate(todos)
  THEN Ok(VArr(SelectSeq(todos.arr, LAMBDA e : IdOf(e) = id)))
  ELSE Throw
\* deleteTodo(id)
deleteTodo(todos, id) ==
  IF CanIterate(todos) THEN Ok(VArr(Filter(todos.arr, 1, id))) ELSE Throw

\* (mutant) the saved text is read but never parsed
useStateInit_NeverParses(s) == Ok(EmptyArr)
\* The useState initializer: localStorage.getItem('todos'), then
\* savedTodos ? JSON.parse(savedTodos) : [].  null and "" are falsy.
useStateInit(s) ==
  IF s.present /\ s.text # <<>> THEN JSONParse(s.text) ELSE Ok(EmptyArr)

\* (mutant) only the empty text counts as blank: no trim
IsBlank_NoTrim(text) == text = <<>>
\* AddTodo's submit handler: forwards to onAdd only text that is not blank.
IsBlank(text) == \A i \in 1..Len(text) : text[i] = " "

\* ---------------------------------------------------------------- inputs
Texts == {<<>>, <<" ", " ">>, <<"A">>, <<"B">>}
\* Collections a previous session saved: ids are past timestamps.
LoadedIds == {1, 2}
InitCollections ==
  {<<>>, <<Item(1, <<"A">>, TRUE), Item(2, <<"B">>, FALSE)>>}
Absent == [present |-> FALSE, text |-> <<>>]
Text(ts) == [present |-> TRUE, text |-> ts]
ValidSlots == {Text(Stringify(VArr(c))) : c \in InitCollections}
\* Texts JSON.parse rejects; the empty text is never handed to it.
UnparseableSlots ==
  {Text(<<Pun("?")>>), Text(<<Pun("["), Pun("{")>>)}
\* Texts that parse to something other than a sequence of items.
WrongShapeSlots ==
  {Text(Stringify(VObj(<<Prop(<<"a">>, TNum(1))>>))),
   Text(Stringify(VArr(<<EObj(<<Prop(KId, TNum(1))>>)>>)))}
InitSlots ==
  {Absent, Text(<<>>)} \cup ValidSlots \cup UnparseableSlots \cup WrongShapeSlots

\* ----------------------------------------------------------------- state
VARIABLES
  slot,          \* localStorage['todos']: absent, or a text
  phase,         \* "init" (not mounted), "running", "crashed" (render threw)
  todos,         \* the state as of the last render: what every handler closes over
  pending,       \* the update setTodos queued for the next render
  effectPending, \* the useEffect of the last commit has not run yet
  now,           \* the last reading of Date.now()
  raised,        \* an error escaped a handler or the initializer
  ideal,         \* history: the session's intents applied one after another
  last,          \* history: the last intent, and what the store held before it
  nIntents       \* history: intents dispatched

vars == <<slot, phase, todos, pending, effectPending, now, raised, ideal,
          last, nIntents>>

NoPending == [has |-> FALSE, val |-> EmptyArr]
NoIntent ==
  [op |-> "none", id |-> Undefined, text |-> <<>>,
   before |-> EmptyArr, slotBefore |-> Absent, quiet |-> FALSE, ok |-> TRUE]

\* Nothing is queued and no effect is outstanding.
Quiescent == phase = "running" /\ ~pending.has /\ ~effectPending
\* The store's newest collection: the queued update if any, else the rendered one.
Cur == IF pending.has THEN pending.val ELSE todos

\* The clock at startup: later than every id a previous session saved.
StartClock == 1 + CHOOSE m \in LoadedIds : \A i \in LoadedIds : i <= m
\* The readings of Date.now() in one behaviour.
Clock == StartClock..(StartClock + MaxTicks)
\* Ids an intent may carry: NoId is the id of no item.
NoId == 0
Ids == {NoId} \cup LoadedIds \cup Clock
\* Some element of the array v has this id.
HasId(v, id) == v.tag = "array" /\ \E i \in 1..Len(v.arr) : IdOf(v.arr[i]) = id
\* A row passes its own todo.id; NoId stands for every id that matches nothing.
IntentId(id) == id = NoId \/ HasId(todos, TNum(id))

Init ==
  /\ slot \in InitSlots
  /\ phase = "init"
  /\ todos = EmptyArr
  /\ pending = NoPending
  /\ effectPending = FALSE
  /\ now = StartClock
  /\ raised = FALSE
  /\ ideal = EmptyArr
  /\ last = NoIntent
  /\ nIntents = 0

\* (mutant) the first commit schedules no effect: startup only reads the slot.
Mount_NoEffect ==
  /\ phase = "init"
  /\ LET r == useStateInit(slot)
     IN IF r.ok
        THEN /\ phase' = "running"
             /\ todos' = r.val
             /\ ideal' = r.val
             /\ effectPending' = FALSE
             /\ raised' = raised
        ELSE /\ phase' = "crashed"
             /\ raised' = TRUE
             /\ UNCHANGED <<todos, ideal, effectPending>>
  /\ UNCHANGED <<slot, pending, now, last, nIntents>>

\* The first render: the initializer runs; its value is committed and the
\* effect is scheduled, or its error unmounts the application.
Mount ==
  /\ phase = "init"
  /\ LET r == useStateInit(slot)
     IN IF r.ok
        THEN /\ phase' = "running"
             /\ todos' = r.val
             /\ ideal' = r.val
             /\ effectPending' = TRUE
             /\ raised' = raised
        ELSE /\ phase' = "crashed"
             /\ raised' = TRUE
             /\ UNCHANGED <<todos, ideal, effectPending>>
  /\ UNCHANGED <<slot, pending, now, last, nIntents>>

\* (mutant) the effect depends on [todos.length]: it is scheduled only when
\* the length changed.
Render_LengthDeps ==
  /\ phase = "running"
  /\ pending.has
  /\ ~effectPending
  /\ todos' = pending.val
  /\ pending' = NoPending
  /\ effectPending' = (Len(pending.val.arr) # Len(todos.arr))
  /\ UNCHANGED <<slot, phase, now, raised, ideal, last, nIntents>>

\* (mutant) the effect runs but stores nothing
RunEffect_NoWrite ==
  /\ phase = "running"
  /\ effectPending
  /\ slot' = slot
  /\ effectPending' = FALSE
  /\ UNCHANGED <<phase, todos, pending, now, raised, ideal, last,
                 nIntents>>

\* useEffect(() => localStorage.setItem('todos', JSON.stringify(todos)), [todos])
RunEffect ==
  /\ phase = "running"
  /\ effectPending
  /\ slot' = Text(Stringify(todos))
  /\ effectPending' = FALSE
  /\ UNCHANGED <<phase, todos, pending, now, raised, ideal, last,
                 nIntents>>

\* A re-render: the queued value becomes the state; it is a new reference, so
\* the effect is scheduled.  React flushes the previous commit's effect first.
Render ==
  /\ phase = "running"
  /\ pending.has
  /\ ~effectPending
  /\ todos' = pending.val
  /\ pending' = NoPending
  /\ effectPending' = TRUE
  /\ UNCHANGED <<slot, phase, now, raised, ideal, last, nIntents>>

\* A handler ran with outcome r: setTodos(r.val), or the error escapes and
\* nothing is queued.  ir is the same intent applied to the history collection.
Queue(op, id, text, r, ir) ==
  /\ nIntents' = nIntents + 1
  /\ last' = [op |-> op, id |-> id, text |-> text, before |-> todos,
              slotBefore |-> slot, quiet |-> Quiescent, ok |-> r.ok]
  /\ pending' = IF r.ok THEN [has |-> TRUE, val |-> r.val] ELSE pending
  /\ raised' = (raised \/ ~r.ok)
  /\ ideal' = IF ir.ok THEN ir.val ELSE ideal
  /\ UNCHANGED <<slot, phase, todos, effectPending>>
\* A handler run, within the bound on intents.
Dispatch(op, id, text, r, ir) ==
  /\ nIntents < MaxIntents
  /\ Queue(op, id, text, r, ir)

\* The add form is submitted with text while Date.now() is t, no earlier than
\* the last reading: onAdd(text) unless text is blank.
SubmitNewItem(text, t) ==
  /\ phase = "running"
  /\ t >= now
  /\ IF IsBlank(text)
     THEN /\ t = now
          /\ now' = now
          /\ nIntents < MaxIntents
          /\ nIntents' = nIntents + 1
          /\ last' = [op |-> "blank", id |-> Undefined, text |-> text,
                      before |-> todos, slotBefore |-> slot,
                      quiet |-> Quiescent, ok |-> TRUE]
          /\ UNCHANGED <<slot, phase, todos, pending, effectPending,
                         raised, ideal>>
     ELSE /\ now' = t
          /\ Dispatch("add", Undefined, text, addTodo(todos, t, text),
                      addTodo(ideal, t, text))

ToggleIntent(id) ==
  /\ phase = "running"
  /\ IntentId(id)
  /\ now' = now
  /\ Dispatch("toggle", TNum(id), <<>>, toggleTodo(todos, TNum(id)),
              toggleTodo(ideal, TNum(id)))

DeleteIntent(id) ==
  /\ phase = "running"
  /\ IntentId(id)
  /\ now' = now
  /\ Dispatch("delete", TNum(id), <<>>, deleteTodo(todos, TNum(id)),
              deleteTodo(ideal, TNum(id)))

\* TodoItem for the i-th element of the rendered todos: its checkbox calls
\* onToggle(todo.id), its button onDelete(todo.id).
RowToggle(i) ==
  /\ phase = "running"
  /\ todos.tag = "array"
  /\ i \in 1..Len(todos.arr)
  /\ now' = now
  /\ LET id == IdOf(todos.arr[i])
     IN Dispatch("toggle", id, <<>>, toggleTodo(todos, id), toggleTodo(ideal, id))
RowDelete(i) ==
  /\ phase = "running"
  /\ todos.tag = "array"
  /\ i \in 1..Len(todos.arr)
  /\ now' = now
  /\ LET id == IdOf(todos.arr[i])
     IN Dispatch("delete", id, <<>>, deleteTodo(todos, id), deleteTodo(ideal, id))

Next ==
  \/ Mount
  \/ RunEffect
  \/ Render
  \/ \E text \in Texts, t \in Clock : SubmitNewItem(text, t)
  \/ \E id \in Ids : ToggleIntent(id)
  \/ \E id \in Ids : DeleteIntent(id)
  \/ \E i \in 1..Len(todos.arr) : RowToggle(i)
  \/ \E i \in 1..Len(todos.arr) : RowDelete(i)

Spec == Init /\ [][Next]_vars

\* ---------------------------------------------------------------- claims
DistinctIds(v) ==
  \A i, j \in 1..Len(v.arr) : i # j => IdOf(v.arr[i]) # IdOf(v.arr[j])

\* C1: once the system is quiescent, the slot holds the serialization of the
\* collection obtained by applying every dispatched intent, in order, to the
\* loaded collection, however the intents were grouped between renders.
C1_PersistedReflectsEveryIntent ==
  Quiescent => slot = Text(Stringify(ideal))

\* C2: when the slot is absent, does not parse, or parses to something that
\* is not a sequence of items, the first render completes with the empty
\* collection as the state: no error, and the malformed value is dropped.
C2_MalformedLoadsEmpty ==
  [][(phase = "init" /\ slot \notin ValidSlots)
       => (phase' = "running" /\ todos' = EmptyArr /\ ~raised')]_vars

\* C3: in every quiescent state the slot holds the serialization of the
\* store's current collection, whichever intent changed it last.
C3_QuiescentSlotIsSerializedStore ==
  Quiescent => slot = Text(Stringify(todos))
\* A toggle and a delete that changed the collection have been persisted.
C3_Witness ==
  /\ Quiescent
  /\ last.op \in {"toggle", "delete"}
  /\ HasId(last.before, last.id)
  /\ todos # last.before

\* C4: for a valid collection c, what the effect saved for c loads back, by
\* the initializer, as c: same items, same field values, same order.
C4_SaveThenLoadIsIdentity ==
  (Quiescent /\ IsCollection(todos)) => useStateInit(slot) = Ok(todos)
\* A saved collection of two items, one completed and one not.
C4_Witness ==
  /\ Quiescent
  /\ IsCollection(todos)
  /\ Len(todos.arr) = 2
  /\ CompletedOf(todos.arr[1]) # CompletedOf(todos.arr[2])
  /\ last.op \in {"add", "toggle", "delete"}
  /\ todos # last.before

\* C5: the ids of the items of the collection are pairwise distinct in every
\* reachable state (every loaded collection has distinct ids), also when two
\* adds read the same clock value.
C5_IdsPairwiseDistinct ==
  (phase = "running" /\ todos.tag = "array") => DistinctIds(todos)

\* a without its k-th element.
RemoveAt(a, k) == [i \in 1..(Len(a) - 1) |-> IF i < k THEN a[i] ELSE a[i + 1]]
\* The last intent was op, carried an id some element of the rendered array
\* had (or had not), and the store's newest collection is its result.
Matched(op) ==
  last.op = op /\ last.ok /\ HasId(last.before, last.id)
Unmatched(op) ==
  last.op = op /\ last.before.tag = "array" /\ ~HasId(last.before, last.id)

\* C6: delete(id) with a matching id removes exactly one element: the length
\* drops by exactly 1 and every other item stays, unchanged and in order.
C6_DeleteRemovesExactlyOne ==
  Matched("delete") =>
    \E k \in 1..Len(last.before.arr) :
      /\ IdOf(last.before.arr[k]) = last.id
      /\ Cur = VArr(RemoveAt(last.before.arr, k))

BlankText(text) == \A i \in 1..Len(text) : text[i] = " "
HasBlankItem(v) ==
  v.tag = "array" /\ \E i \in 1..Len(v.arr) :
    TextOf(v.arr[i]).k = "str" /\ BlankText(TextOf(v.arr[i]).s)

\* C8: submitting empty or whitespace-only text changes neither the rendered
\* collection nor the queued one, writes nothing and raises nothing; and no
\* item with blank text is ever in the collection (no loaded one holds any).
C8_BlankAddIgnored ==
  /\ [][(nIntents' # nIntents /\ last'.op \in {"add", "blank"}
          /\ BlankText(last'.text))
        => (todos' = todos /\ pending' = pending /\ slot' = slot
            /\ raised' = raised)]_vars
  /\ [](~HasBlankItem(todos) /\ ~HasBlankItem(pending.val))
\* Whitespace-only text was submitted to a collection that holds an item.
C8_Witness ==
  /\ last.op = "blank"
  /\ last.text # <<>>
  /\ Len(Cur.arr) > 0

\* C9: whatever the slot held at startup, every add, toggle and delete
\* completes without raising and yields a collection.
C9_IntentsAreTotal ==
  (last.op \in {"add", "toggle", "delete"}) => (last.ok /\ IsCollection(Cur))

\* C10: toggle(id) and delete(id) with an id no item of the collection has
\* raise nothing and yield a collection equal to it in content and order;
\* dispatched at a quiescent point, they leave the slot, once their effect
\* has run, with the content it had.
C10_UnmatchedIdIsNoOp ==
  (Unmatched("toggle") \/ Unmatched("delete")) =>
    /\ last.ok
    /\ Cur = last.before
    /\ (last.quiet /\ Quiescent) => slot = last.slotBefore
\* An unmatched delete on a non-empty collection has been rendered and
\* persisted.
C10_Witness ==
  /\ Unmatched("delete")
  /\ last.quiet
  /\ Quiescent
  /\ Len(last.before.arr) > 0

\* C11: add(text) with non-blank text yields the collection with exactly one
\* item appended at the end: the given text, completed false, and the clock
\* reading as id; the items it had are kept, unchanged and in order.
C11_AddAppendsOneItem ==
  (last.op = "add" /\ last.before.tag = "array") =>
    /\ last.ok
    /\ Cur = VArr(Append(last.before.arr, Item(now, last.text, FALSE)))
\* An add to a collection that already holds items.
C11_Witness ==
  /\ last.op = "add"
  /\ IsCollection(last.before)
  /\ Len(last.before.arr) > 0
  /\ Len(Cur.arr) = Len(last.before.arr) + 1

\* C12: after toggle(id) on a collection c, a second toggle(id) gives c
\* back: every item has its original completed value, content and order.
C12_ToggleTwiceIsIdentity ==
  (last.op = "toggle" /\ IsCollection(last.before)) =>
    /\ last.ok
    /\ toggleTodo(Cur, last.id) = Ok(last.before)
\* The first toggle changed an item, so the second has something to undo.
C12_Witness ==
  /\ Matched("toggle")
  /\ IsCollection(last.before)
  /\ Cur # last.before

\* -------------------------------------------------- end-to-end scenario
\* Start empty; add "A"; add "B"; toggle(B's id); delete(A's id).  The
\* intents are processed one at a time: each is dispatched once the update
\* of the one before has been rendered.  The two adds read the clock at any
\* two readings, the second no earlier than the first.
E2E_Init ==
  /\ Init
  /\ slot \in {Absent, Text(<<>>), Text(Stringify(EmptyArr))}
E2E_Ready(k) == phase = "running" /\ ~pending.has /\ nIntents = k
E2E_AddA(t) ==
  /\ E2E_Ready(0)
  /\ t >= now
  /\ now' = t
  /\ Queue("add", Undefined, <<"A">>, addTodo(todos, t, <<"A">>),
           addTodo(ideal, t, <<"A">>))
E2E_AddB(t) ==
  /\ E2E_Ready(1)
  /\ t >= now
  /\ now' = t
  /\ Queue("add", Undefined, <<"B">>, addTodo(todos, t, <<"B">>),
           addTodo(ideal, t, <<"B">>))
\* B's id is the clock reading of the second add: the last reading.
E2E_ToggleB ==
  /\ E2E_Ready(2)
  /\ now' = now
  /\ Queue("toggle", TNum(now), <<>>, toggleTodo(todos, TNum(now)),
           toggleTodo(ideal, TNum(now)))
\* A's id is the id of the first item added.
E2E_DeleteA ==
  /\ E2E_Ready(3)
  /\ now' = now
  /\ LET idA == IdOf(ideal.arr[1])
     IN Queue("delete", idA, <<>>, deleteTodo(todos, idA),
              deleteTodo(ideal, idA))
E2E_Next ==
  \/ Mount
  \/ RunEffect
  \/ Render
  \/ \E t \in Clock : E2E_AddA(t)
  \/ \E t \in Clock : E2E_AddB(t)
  \/ E2E_ToggleB
  \/ E2E_DeleteA
SpecE2E == E2E_Init /\ [][E2E_Next]_vars

\* C13: the scenario ends with a collection of exactly one item, with text
\* "B" and completed true, whatever the two clock readings were.
C13_EndToEndLeavesCompletedB ==
  (E2E_Ready(4) /\ ~effectPending) =>
    /\ IsCollection(todos)
    /\ Len(todos.arr) = 1
    /\ TextOf(todos.arr[1]) = TStr(<<"B">>)
    /\ CompletedOf(todos.arr[1]) = TBool(TRUE)

\* C14: the checkbox of row i dispatches a toggle carrying the id of the
\* item of row i, its button a delete carrying that id, and the collection
\* queued by the handler differs from the rendered one in row i only: the
\* toggle leaves every other row equal, the delete removes row i alone.
C14_RowIntentTouchesOwnItemOnly ==
  [][\A i \in 1..Len(todos.arr) :
       /\ RowToggle(i) =>
            /\ last'.op = "toggle" /\ last'.id = IdOf(todos.arr[i])
            /\ Len(pending'.val.arr) = Len(todos.arr)
            /\ \A j \in 1..Len(todos.arr) :
                 j # i => pending'.val.arr[j] = todos.arr[j]
       /\ RowDelete(i) =>
            /\ last'.op = "delete" /\ last'.id = IdOf(todos.arr[i])
            /\ pending'.val = VArr(RemoveAt(todos.arr, i))]_vars
\* C15: in every state the ids of the items of the store, read in collection
\* order, are strictly increasing (the clock of the model never goes
\* backwards: every reading t satisfies t >= now).
C15_IdsStrictlyIncreasing ==
  IsCollection(todos) =>
    \A i \in 1..Len(todos.arr) : \A j \in 1..Len(todos.arr) :
      i < j => IdOf(todos.arr[i]).n < IdOf(todos.arr[j]).n

\* C16: startup writes the slot.  Once the effect of the initial mount has
\* run and before any intent, the slot holds the serialization of the loaded
\* collection; the write that finds the slot absent stores the serialization
\* of the empty collection; and whenever the application is rendered with no
\* effect outstanding, the slot is present.
C16_StartupWritesSlot ==
  /\ []((Quiescent /\ nIntents = 0) => slot = Text(Stringify(ideal)))
  /\ []((phase = "running" /\ ~effectPending) => slot.present)
  /\ [][(~slot.present /\ slot' # slot)
        => (slot' = Text(Stringify(EmptyArr)) /\ pending' = pending
            /\ todos' = EmptyArr /\ ~effectPending')]_vars
\* The slot was absent when the form was submitted blank right after the
\* mount, and the mount's effect has since written the empty collection.
C16_Witness ==
  /\ last.op = "blank"
  /\ ~last.slotBefore.present
  /\ Quiescent
  /\ slot = Text(Stringify(EmptyArr))

\* a is b with some elements left out, the others unchanged and in order.
RECURSIVE IsSubseq(_, _)
IsSubseq(a, b) ==
  IF a = <<>> THEN TRUE
  ELSE IF b = <<>> THEN FALSE
  ELSE IF Head(a) = Head(b) THEN IsSubseq(Tail(a), Tail(b))
  ELSE IsSubseq(a, Tail(b))

\* C17: an intent changes neither the id nor the text of an item it keeps,
\* and only toggle changes a completed flag.  Against the collection the
\* handler started from: add keeps every item as it was, in place; toggle
\* keeps the length and every item's id and text; delete keeps a selection of
\* the items, each as it was and in order.  Rendering and saving change no item.
C17_IdAndTextAreFixed ==
  /\ []((last.op \in {"add", "toggle", "delete"} /\ IsCollection(last.before))
        => /\ last.ok
           /\ IsCollection(Cur)
           /\ LET old == last.before.arr
                  new == Cur.arr
              IN CASE last.op = "add" ->
                        /\ Len(new) = Len(old) + 1
                        /\ SubSeq(new, 1, Len(old)) = old
                   [] last.op = "toggle" ->
                        /\ Len(new) = Len(old)
                        /\ \A i \in 1..Len(old) :
                             /\ IdOf(new[i]) = IdOf(old[i])
                             /\ TextOf(new[i]) = TextOf(old[i])
                   [] last.op = "delete" -> IsSubseq(new, old))
  /\ [][(phase = "running" /\ nIntents' = nIntents) => Cur' = Cur]_vars
\* Of two items the delete removed one, and the one that stayed is one of the
\* two, with the id and the text it had.
C17_Witness ==
  /\ Matched("delete")
  /\ IsCollection(last.before)
  /\ Len(last.before.arr) = 2
  /\ Len(Cur.arr) = 1
  /\ \E i \in 1..2 :
       /\ IdOf(Cur.arr[1]) = IdOf(last.before.arr[i])
       /\ TextOf(Cur.arr[1]) = TextOf(last.before.arr[i])

\* ------------------------------------------------------- session restart
\* The page is reloaded: the component state is discarded, localStorage
\* stays, and App is about to render for the first time again.
Restart ==
  /\ phase \in {"running", "crashed"}
  /\ nIntents < MaxIntents
  /\ nIntents' = nIntents + 1
  /\ last' = [op |-> "restart", id |-> Undefined, text |-> <<>>,
              before |-> todos, slotBefore |-> slot, quiet |-> Quiescent,
              ok |-> TRUE]
  /\ phase' = "init"
  /\ todos' = EmptyArr
  /\ pending' = NoPending
  /\ effectPending' = FALSE
  /\ UNCHANGED <<slot, now, raised, ideal>>
NextRestart ==
  \/ Next
  \/ Restart
SpecRestart == Init /\ [][NextRestart]_vars

\* C18: after a restart at a quiescent point the new session does not crash,
\* the collection it loads equals, in content and order, the one the previous
\* session held, and the slot has the content it had before the restart, both
\* before and after the new session's first effect has run.
C18_RestartPreservesCollection ==
  (last.op = "restart" /\ last.quiet) =>
    /\ phase # "crashed"
    /\ slot = last.slotBefore
    /\ phase = "running" => Cur = last.before
\* A session added an item, was restarted at rest, and the new session has
\* loaded and saved.
C18_Witness ==
  /\ last.op = "restart"
  /\ last.quiet
  /\ Quiescent
  /\ IsCollection(todos)
  /\ \E i \in 1..Len(todos.arr) : IdOf(todos.arr[i]).n >= StartClock
====
